---------------------------- MODULE Spec2Model ----------------------------
(***************************************************************************)
(* Model of the well-path core of well-data-streaming:                     *)
(*   Tops   (src/wellx/items/location/_tops.py)   formation tops           *)
(*   Survey (src/build/lib/wellx/items/location/_survey.py) trajectory     *)
(*                                                                         *)
(* Three specifications share the module:                                  *)
(*   SpecTops   one Tops instance: construction, mutators and queries      *)
(*   SpecSurvey one Survey instance: the four construction paths and the   *)
(*              MD<->TVD interpolation                                      *)
(*   SpecGeom   the static geometry helpers applied to bounded inputs      *)
(***************************************************************************)
EXTENDS Integers, Sequences, FiniteSets, TLC

VARIABLES
    alive,      \* Tops: "none" before construction, "built", or "failed"
    formation,  \* Tops._formation : sequence of names, shallow to deep
    depth,      \* Tops._depth     : sequence of floats aligned to formation
    facecolor,  \* Tops._facecolor : function name -> color
    owner,      \* ghost: the depth each present name was given by the caller
    ret,        \* Tops: the last call, its arguments and its outcome
    salive,     \* Survey: "none" before construction, "built", or "failed"
    survey,     \* Survey instance: record of the six arrays and the tie-in
    sret,       \* Survey: the last call, its arguments and its outcome
    gret,       \* static geometry helpers: the last call and its outcome
    heap,       \* object identity: reference -> the object's kind and contents
    tinst,      \* the Tops handles: the objects _formation, _depth, _facecolor are bound to
    sinst,      \* the Survey handles: the objects MD and TVD are bound to
    held,       \* references the caller holds: its own inputs, and internals handed out
    call        \* object identity: the last call, its handle and the references returned

topsVars   == <<alive, formation, depth, facecolor, owner, ret>>
surveyVars == <<salive, survey, sret>>
shareVars  == <<heap, tinst, sinst, held, call>>
vars       == <<alive, formation, depth, facecolor, owner, ret, salive, survey, sret, gret, heap, tinst, sinst, held, call>>

---------------------------------------------------------------------------
(* Bounds of the model                                                     *)

\* longest name/depth sequence handed to the Tops constructor
MaxLen == 2
\* largest finite depth handed to Tops (the smallest is -1)
MaxDepth == 1

Names  == {"A", "B", "C"}
Colors == {"red"}

---------------------------------------------------------------------------
(* Floating-point values: a rational n/d in lowest terms, or NaN, +inf,    *)
(* -inf.  Comparisons follow IEEE-754 (every comparison with NaN is false).*)

Abs(x) == IF x < 0 THEN -x ELSE x

RECURSIVE GCD(_, _)
GCD(a, b) == IF b = 0 THEN a ELSE GCD(b, a % b)

Rat(n, d) == LET g == GCD(Abs(n), Abs(d)) s == IF d < 0 THEN -1 ELSE 1 IN [k |-> "fin", n |-> (s * n) \div g, d |-> (s * d) \div g]
Fl(i)     == [k |-> "fin", n |-> i, d |-> 1]
NaN       == [k |-> "nan", n |-> 0, d |-> 1]
PosInf    == [k |-> "inf", n |-> 1, d |-> 1]
NegInf    == [k |-> "inf", n |-> -1, d |-> 1]

isfinite(x) == x.k = "fin"
IsNaN(x)    == x.k = "nan"

\* p/q < r/s for q, s > 0, by integer parts and then the reciprocals of the
\* fractional parts, so that no product leaves the machine integers
RECURSIVE RatLt(_, _, _, _)
RatLt(p, q, r, s) ==
    LET ip == IF p >= 0 THEN p \div q ELSE -((-p + q - 1) \div q)
        ir == IF r >= 0 THEN r \div s ELSE -((-r + s - 1) \div s)
        fp == p - ip * q
        fr == r - ir * s
    IN IF ip # ir THEN ip < ir
       ELSE IF fr = 0 THEN FALSE
       ELSE IF fp = 0 THEN TRUE
       ELSE RatLt(s, fr, q, fp)

FLt(a, b) ==
    IF IsNaN(a) \/ IsNaN(b) THEN FALSE
    ELSE IF a.k = "inf" THEN a.n < 0 /\ ~(b.k = "inf" /\ b.n < 0)
    ELSE IF b.k = "inf" THEN b.n > 0
    ELSE IF a.d = 1 /\ b.d = 1 THEN a.n < b.n
    ELSE RatLt(a.n, a.d, b.n, b.d)
FEq(a, b) == ~IsNaN(a) /\ ~IsNaN(b) /\ a = b
FLe(a, b) == FLt(a, b) \/ FEq(a, b)
FGe(a, b) == FLe(b, a)
FGt(a, b) == FLt(b, a)

FAdd(a, b) ==
    IF IsNaN(a) \/ IsNaN(b) THEN NaN
    ELSE IF a.k = "inf" /\ b.k = "inf" THEN (IF a.n = b.n THEN a ELSE NaN)
    ELSE IF a.k = "inf" THEN a
    ELSE IF b.k = "inf" THEN b
    ELSE Rat(a.n * b.d + b.n * a.d, a.d * b.d)
FNeg(a) == IF a.k = "nan" THEN NaN ELSE [a EXCEPT !.n = -a.n]
FSub(a, b) == FAdd(a, FNeg(b))
\* products and quotients are only taken of finite values
FMul(a, b) == IF ~isfinite(a) \/ ~isfinite(b) THEN NaN ELSE Rat(a.n * b.n, a.d * b.d)
FDiv(a, b) == IF ~isfinite(a) \/ ~isfinite(b) \/ b.n = 0 THEN NaN ELSE Rat(a.n * b.d, a.d * b.n)

---------------------------------------------------------------------------
(* Sequence helpers                                                        *)

Range(s) == {s[i] : i \in DOMAIN s}
SeqsUpTo(S, n) == UNION {[1..k -> S] : k \in 0..n}
InsertAt(s, i, x) == SubSeq(s, 1, i) \o <<x>> \o SubSeq(s, i + 1, Len(s))
DeleteAt(s, i) == SubSeq(s, 1, i - 1) \o SubSeq(s, i + 1, Len(s))
IndexOf(s, x) == CHOOSE i \in DOMAIN s : s[i] = x /\ \A j \in 1..(i - 1) : s[j] # x

\* a dict: a function whose domain is the key set
EmptyDict == [x \in {} |-> 0]
DictSet(m, key, v) == [x \in (DOMAIN m) \cup {key} |-> IF x = key THEN v ELSE m[x]]
DictPop(m, key) == [x \in (DOMAIN m) \ {key} |-> m[x]]

---------------------------------------------------------------------------
(* Tops                                                                    *)

TopsState(f, d, c) == [formation |-> f, depth |-> d, facecolor |-> c]
Ok(st)      == [err |-> "", msg |-> "", st |-> st]
Raise(e, m, st) == [err |-> e, msg |-> m, st |-> st]

\* np.argsort(depths, kind="mergesort"): the stable order; order[k] is the
\* input position of the k-th shallowest depth, ties in input order
ArgsortBad(d) == [k \in DOMAIN d |-> k]
argsort(d) == [k \in DOMAIN d |-> CHOOSE i \in DOMAIN d : Cardinality({j \in DOMAIN d : FLt(d[j], d[i]) \/ (d[j] = d[i] /\ j < i)}) = k - 1]

\* a constructor that sorts the depths and leaves the names in the given order
PostInitNamesUnsorted(names, depths, colors) ==
    IF Len(names) # Len(depths) THEN Raise("ValueError", "same length", TopsState(<<>>, <<>>, EmptyDict))
    ELSE IF \E i \in DOMAIN depths : ~isfinite(depths[i]) THEN Raise("ValueError", "finite", TopsState(<<>>, <<>>, EmptyDict))
    ELSE IF \E i \in DOMAIN depths : FLt(depths[i], Fl(0)) THEN Raise("ValueError", ">= 0", TopsState(<<>>, <<>>, EmptyDict))
    ELSE IF Cardinality(Range(names)) # Len(names) THEN Raise("ValueError", "duplicate", TopsState(<<>>, <<>>, EmptyDict))
    ELSE LET order == argsort(depths) IN Ok(TopsState(names, [k \in DOMAIN depths |-> depths[order[k]]], colors))
\* Tops.__post_init__ (facecolor=None and facecolor={} both store {})
Tops_post_init(names, depths, colors) ==
    IF Len(names) # Len(depths) THEN Raise("ValueError", "same length", TopsState(<<>>, <<>>, EmptyDict))
    ELSE IF \E i \in DOMAIN depths : ~isfinite(depths[i]) THEN Raise("ValueError", "finite", TopsState(<<>>, <<>>, EmptyDict))
    ELSE IF \E i \in DOMAIN depths : FLt(depths[i], Fl(0)) THEN Raise("ValueError", ">= 0", TopsState(<<>>, <<>>, EmptyDict))
    ELSE IF Cardinality(Range(names)) # Len(names) THEN Raise("ValueError", "duplicate", TopsState(<<>>, <<>>, EmptyDict))
    ELSE LET order == argsort(depths) IN Ok(TopsState([k \in DOMAIN names |-> names[order[k]]], [k \in DOMAIN depths |-> depths[order[k]]], colors))


\* the absent value of an optional name or color, and of an optional float
None    == "None"
NoFloat == [k |-> "none", n |-> 0, d |-> 1]

\* np.searchsorted(a, v, side="left"): binary search over positions lo..hi
\* (0-based); the first position whose element is not < v
RECURSIVE bisect_left(_, _, _, _)
bisect_left(a, v, lo, hi) ==
    IF lo >= hi THEN lo
    ELSE LET mid == (lo + hi) \div 2 IN
         IF FLt(a[mid + 1], v) THEN bisect_left(a, v, mid + 1, hi) ELSE bisect_left(a, v, lo, mid)
SearchsortedEnd(a, v) == Len(a)
searchsorted(a, v) == bisect_left(a, v, 0, Len(a))

\* Tops.add
AddNoDepthCheck(st, name, d, color) ==
    IF name \in Range(st.formation) THEN Raise("ValueError", "already exists", st)
    ELSE LET at == searchsorted(st.depth, d) IN
         Ok(TopsState(InsertAt(st.formation, at, name), InsertAt(st.depth, at, d), IF color # None THEN DictSet(st.facecolor, name, color) ELSE st.facecolor))
Tops_add(st, name, d, color) ==
    IF name \in Range(st.formation) THEN Raise("ValueError", "already exists", st)
    ELSE IF ~isfinite(d) \/ FLt(d, Fl(0)) THEN Raise("ValueError", "finite >= 0", st)
    ELSE LET at == searchsorted(st.depth, d) IN
         Ok(TopsState(InsertAt(st.formation, at, name), InsertAt(st.depth, at, d), IF color # None THEN DictSet(st.facecolor, name, color) ELSE st.facecolor))

\* Tops.get_facecolor: dict.get, None when unset
Tops_get_facecolor(st, name) == IF name \in DOMAIN st.facecolor THEN st.facecolor[name] ELSE None

\* Tops.remove
RemoveKeepColor(st, name) ==
    IF name \notin Range(st.formation) THEN Ok(st)
    ELSE LET i == IndexOf(st.formation, name) IN
         Ok(TopsState(DeleteAt(st.formation, i), DeleteAt(st.depth, i), st.facecolor))
Tops_remove(st, name) ==
    IF name \notin Range(st.formation) THEN Ok(st)
    ELSE LET i == IndexOf(st.formation, name) IN
         Ok(TopsState(DeleteAt(st.formation, i), DeleteAt(st.depth, i), DictPop(st.facecolor, name)))

\* Tops.rename
RenameNoCheck(st, old, new) ==
    IF old \notin Range(st.formation) THEN Raise("ValueError", "not found", st)
    ELSE LET i == IndexOf(st.formation, old) IN
         Ok(TopsState([st.formation EXCEPT ![i] = new], st.depth, IF old \in DOMAIN st.facecolor THEN DictSet(DictPop(st.facecolor, old), new, st.facecolor[old]) ELSE st.facecolor))
Tops_rename(st, old, new) ==
    IF new \in Range(st.formation) THEN Raise("ValueError", "already exists", st)
    ELSE IF old \notin Range(st.formation) THEN Raise("ValueError", "not found", st)
    ELSE LET i == IndexOf(st.formation, old) IN
         Ok(TopsState([st.formation EXCEPT ![i] = new], st.depth, IF old \in DOMAIN st.facecolor THEN DictSet(DictPop(st.facecolor, old), new, st.facecolor[old]) ELSE st.facecolor))

\* Tops.merge_facecolors: keys that are no present formation are ignored
Tops_merge_facecolors(st, mapping) ==
    Ok(TopsState(st.formation, st.depth, [x \in (DOMAIN st.facecolor) \cup ((DOMAIN mapping) \cap Range(st.formation)) |-> IF x \in DOMAIN mapping /\ x \in Range(st.formation) THEN mapping[x] ELSE st.facecolor[x]]))

\* Tops.intervals: (name, top, bottom), the deepest bottom absent
Tops_intervals(st) == [i \in DOMAIN st.formation |-> [name |-> st.formation[i], top |-> st.depth[i], bottom |-> IF i < Len(st.formation) THEN st.depth[i + 1] ELSE NoFloat]]

\* Tops.find_at_md: the first interval of the scan that contains md
FindClosedBottom(st, md) ==
    LET ints == Tops_intervals(st)
        hits == {i \in DOMAIN ints : IF ints[i].bottom = NoFloat THEN FGe(md, ints[i].top) ELSE FLe(ints[i].top, md) /\ FLe(md, ints[i].bottom)}
    IN IF hits = {} THEN None ELSE ints[CHOOSE i \in hits : \A j \in hits : i <= j].name
FindOpenTop(st, md) ==
    LET ints == Tops_intervals(st)
        hits == {i \in DOMAIN ints : IF ints[i].bottom = NoFloat THEN FGt(md, ints[i].top) ELSE FLe(ints[i].top, md) /\ FLt(md, ints[i].bottom)}
    IN IF hits = {} THEN None ELSE ints[CHOOSE i \in hits : \A j \in hits : i <= j].name
Tops_find_at_md(st, md) ==
    LET ints == Tops_intervals(st)
        hits == {i \in DOMAIN ints : IF ints[i].bottom = NoFloat THEN FGe(md, ints[i].top) ELSE FLe(ints[i].top, md) /\ FLt(md, ints[i].bottom)}
    IN IF hits = {} THEN None ELSE ints[CHOOSE i \in hits : \A j \in hits : i <= j].name

---------------------------------------------------------------------------
(* Survey: arrays, validation and interpolation                            *)

\* bounds of the station arrays: longest array, largest station value
MaxStations == 3
MaxVal == 2

\* an optional array: absent (None) or an ndarray of floats
Absent    == [has |-> FALSE, a |-> <<>>]
Arr(a)    == [has |-> TRUE, a |-> a]
SurveyRec(MD, TVD, DX, DY, INC, AZI, xhead, yhead, datum) == [MD |-> MD, TVD |-> TVD, DX |-> DX, DY |-> DY, INC |-> INC, AZI |-> AZI, xhead |-> xhead, yhead |-> yhead, datum |-> datum]
NoSurvey  == SurveyRec(Absent, Absent, Absent, Absent, Absent, Absent, Fl(0), Fl(0), Fl(0))

\* a call's outcome: an exception kind and message, or a value
Return(v)     == [err |-> "", msg |-> "", val |-> v]
Throw(e, m)   == [err |-> e, msg |-> m, val |-> <<>>]

\* np.diff
diff(a) == [i \in 1..(Len(a) - 1) |-> FSub(a[i + 1], a[i])]

\* Survey._require_strictly_increasing (arrays are 1-D): np.all(np.diff(arr) > 0)
RequireNonDecreasing(a) == IF \A i \in DOMAIN diff(a) : FGe(diff(a)[i], Fl(0)) THEN Return(<<>>) ELSE Throw("ValueError", "must be strictly increasing")
require_strictly_increasing(a) == IF \A i \in DOMAIN diff(a) : FGt(diff(a)[i], Fl(0)) THEN Return(<<>>) ELSE Throw("ValueError", "must be strictly increasing")

\* Survey._validate_shapes_and_monotonicity
Provided(sv) == LET all == <<sv.MD, sv.TVD, sv.DX, sv.DY, sv.INC, sv.AZI>> IN SelectSeq(all, LAMBDA x : x.has)
ValidateMdOnly(sv) == IF sv.MD.has THEN require_strictly_increasing(sv.MD.a) ELSE Return(<<>>)
validate_shapes_and_monotonicity(sv) ==
    LET arrays == Provided(sv) IN
    IF \E i \in DOMAIN arrays : Len(arrays[i].a) # Len(arrays[1].a) THEN Throw("ValueError", "same length")
    ELSE IF sv.MD.has THEN require_strictly_increasing(sv.MD.a)
    ELSE Return(<<>>)

\* Survey._ensure_available
EnsureNothing(arr, name) == Return(<<>>)
ensure_available(arr, name) == IF ~arr.has THEN Throw("ValueError", name \o " is not available") ELSE Return(<<>>)

\* np.min / np.max of a non-empty array
Fmin(q) == CHOOSE x \in Range(q) : \A y \in Range(q) : FLe(x, y)
Fmax(q) == CHOOSE x \in Range(q) : \A y \in Range(q) : FGe(x, y)

\* Survey._check_in_range: base[0] and base[-1] of an empty base raise IndexError
CheckLowerOnly(query, base) ==
    IF Len(base) = 0 THEN Throw("IndexError", "index 0 is out of bounds")
    ELSE IF FLt(Fmin(query), base[1]) THEN Throw("ValueError", "outside the range")
    ELSE Return(<<>>)
check_in_range(query, base) ==
    IF Len(base) = 0 THEN Throw("IndexError", "index 0 is out of bounds")
    ELSE IF FLt(Fmin(query), base[1]) \/ FGt(Fmax(query), base[Len(base)]) THEN Throw("ValueError", "outside the range")
    ELSE Return(<<>>)

\* np.interp(x, xp, fp) for one x over increasing xp: the end values outside
\* [xp[0], xp[-1]], fp[j] on a sample point, else the chord through j, j+1
InterpStep(x, xp, fp) ==
    LET n == Len(xp) IN
    IF FLt(x, xp[1]) THEN fp[1]
    ELSE IF FGe(x, xp[n]) THEN fp[n]
    ELSE LET j == CHOOSE i \in 1..(n - 1) : FLe(xp[i], x) /\ FLt(x, xp[i + 1]) IN fp[j]
interp1(x, xp, fp) ==
    LET n == Len(xp) IN
    IF FLt(x, xp[1]) THEN fp[1]
    ELSE IF FGe(x, xp[n]) THEN fp[n]
    ELSE LET j == CHOOSE i \in 1..(n - 1) : FLe(xp[i], x) /\ FLt(x, xp[i + 1])
             slope == FDiv(FSub(fp[j + 1], fp[j]), FSub(xp[j + 1], xp[j]))
         IN IF xp[j] = x THEN fp[j] ELSE FAdd(FMul(slope, FSub(x, xp[j])), fp[j])
interp(q, xp, fp) == [i \in DOMAIN q |-> interp1(q[i], xp, fp)]

\* Survey.md2tvd
md2tvd(sv, values) ==
    IF ensure_available(sv.MD, "MD").err # "" THEN ensure_available(sv.MD, "MD")
    ELSE IF ensure_available(sv.TVD, "TVD").err # "" THEN ensure_available(sv.TVD, "TVD")
    ELSE IF check_in_range(values, sv.MD.a).err # "" THEN check_in_range(values, sv.MD.a)
    ELSE Return(interp(values, sv.MD.a, sv.TVD.a))

\* Survey.tvd2md
Tvd2mdUnchecked(sv, values) ==
    IF ensure_available(sv.MD, "MD").err # "" THEN ensure_available(sv.MD, "MD")
    ELSE IF ensure_available(sv.TVD, "TVD").err # "" THEN ensure_available(sv.TVD, "TVD")
    ELSE IF check_in_range(values, sv.TVD.a).err # "" THEN check_in_range(values, sv.TVD.a)
    ELSE Return(interp(values, sv.TVD.a, sv.MD.a))
tvd2md(sv, values) ==
    IF ensure_available(sv.MD, "MD").err # "" THEN ensure_available(sv.MD, "MD")
    ELSE IF ensure_available(sv.TVD, "TVD").err # "" THEN ensure_available(sv.TVD, "TVD")
    ELSE IF ~(\A i \in DOMAIN diff(sv.TVD.a) : FGt(diff(sv.TVD.a)[i], Fl(0))) THEN Throw("ValueError", "TVD must be strictly increasing")
    ELSE IF check_in_range(values, sv.TVD.a).err # "" THEN check_in_range(values, sv.TVD.a)
    ELSE Return(interp(values, sv.TVD.a, sv.MD.a))


\* Survey.view_plan
view_plan(sv) ==
    IF ensure_available(sv.DX, "DX").err # "" THEN ensure_available(sv.DX, "DX")
    ELSE IF ensure_available(sv.DY, "DY").err # "" THEN ensure_available(sv.DY, "DY")
    ELSE Return(<<sv.DX.a, sv.DY.a>>)

\* Survey.view_section
view_section(sv) ==
    IF ensure_available(sv.MD, "MD").err # "" THEN ensure_available(sv.MD, "MD")
    ELSE IF ensure_available(sv.TVD, "TVD").err # "" THEN ensure_available(sv.TVD, "TVD")
    ELSE Return(<<sv.MD.a, sv.TVD.a>>)

\* positions spread over the first half of [0, stop] only
LinspaceHalfSpan(stop, num) == [i \in 1..num |-> IF num = 1 THEN Fl(0) ELSE Rat((i - 1) * stop, 2 * (num - 1))]
\* np.linspace(0, stop, num) for num >= 1, as exact rationals
linspace(stop, num) == [i \in 1..num |-> IF num = 1 THEN Fl(0) ELSE Rat((i - 1) * stop, num - 1)]
\* np.rint(x).astype(int) of a finite x >= 0: to the nearest integer, a half to the even one
rint(x) ==
    LET f == x.n \div x.d
        r == 2 * (x.n - f * x.d)
    IN IF r < x.d THEN f ELSE IF r > x.d THEN f + 1 ELSE IF f % 2 = 0 THEN f ELSE f + 1
\* np.unique of integers: the distinct values in increasing order
unique(a) ==
    LET S == Range(a) IN
    CHOOSE u \in [1..Cardinality(S) -> S] : \A i \in 1..(Cardinality(S) - 1) : u[i] < u[i + 1]
\* the selected station indices (0-based)
\* np.rint(np.linspace(0, n - 1, max_points)).astype(int), before np.unique
downsample_raw(n, max_points) == [i \in 1..max_points |-> rint(linspace(n - 1, max_points)[i])]
downsample_idx(n, max_points) == unique(downsample_raw(n, max_points))

\* Survey.downsample: the provided arrays, in field order
DownsampleTruncate(sv, max_points) ==
    IF max_points < 2 THEN Throw("ValueError", "max_points must be >= 2")
    ELSE IF ensure_available(sv.MD, "MD").err # "" THEN ensure_available(sv.MD, "MD")
    ELSE IF Len(sv.MD.a) <= max_points THEN Return([k \in DOMAIN Provided(sv) |-> Provided(sv)[k].a])
    ELSE Return([k \in DOMAIN Provided(sv) |-> SubSeq(Provided(sv)[k].a, 1, max_points)])
DownsampleMinOne(sv, max_points) ==
    IF max_points < 1 THEN Throw("ValueError", "max_points must be >= 2")
    ELSE IF ensure_available(sv.MD, "MD").err # "" THEN ensure_available(sv.MD, "MD")
    ELSE IF Len(sv.MD.a) <= max_points THEN Return([k \in DOMAIN Provided(sv) |-> Provided(sv)[k].a])
    ELSE LET idx == downsample_idx(Len(sv.MD.a), max_points)
         IN Return([k \in DOMAIN Provided(sv) |-> [j \in DOMAIN idx |-> Provided(sv)[k].a[idx[j] + 1]]])
downsample(sv, max_points) ==
    IF max_points < 2 THEN Throw("ValueError", "max_points must be >= 2")
    ELSE IF ensure_available(sv.MD, "MD").err # "" THEN ensure_available(sv.MD, "MD")
    ELSE IF Len(sv.MD.a) <= max_points THEN Return([k \in DOMAIN Provided(sv) |-> Provided(sv)[k].a])
    ELSE LET idx == downsample_idx(Len(sv.MD.a), max_points)
         IN Return([k \in DOMAIN Provided(sv) |-> [j \in DOMAIN idx |-> Provided(sv)[k].a[idx[j] + 1]]])

---------------------------------------------------------------------------
(* Survey: static geometry helpers                                         *)

\* Angles are handled on the grid of multiples of 90 degrees, where sin and
\* cos are 0, 1 or -1; pi is the rational 355/113 throughout, so that
\* deg2rad, arccos and the ratio factor (2/dl)*tan(dl/2) stay rational.
Pi      == Rat(355, 113)
HalfPi  == Rat(355, 226)
QuartPi == Rat(355, 452)
deg2rad(x) == FMul(x, FDiv(Pi, Fl(180)))
cos(r) == CASE r = Fl(0) -> Fl(1) [] r = HalfPi -> Fl(0) [] r = FNeg(HalfPi) -> Fl(0) [] r = Pi -> Fl(-1) [] r = FNeg(Pi) -> Fl(-1)
sin(r) == CASE r = Fl(0) -> Fl(0) [] r = HalfPi -> Fl(1) [] r = FNeg(HalfPi) -> Fl(-1) [] r = Pi -> Fl(0) [] r = FNeg(Pi) -> Fl(0)
tan(r) == CASE r = Fl(0) -> Fl(0) [] r = QuartPi -> Fl(1)
arccos(c) == CASE c = Fl(1) -> Fl(0) [] c = Fl(0) -> HalfPi [] c = Fl(-1) -> Pi
clip(x, lo, hi) == IF FLt(x, lo) THEN lo ELSE IF FGt(x, hi) THEN hi ELSE x

\* np.sqrt: NaN below zero; otherwise the root cut to 1/SqrtScale (exact on
\* perfect squares)
SqrtScale == 1000
RECURSIVE ISqrt(_, _, _)
ISqrt(n, lo, hi) ==
    IF lo >= hi THEN lo
    ELSE LET mid == (lo + hi + 1) \div 2 IN
         IF mid * mid <= n THEN ISqrt(n, mid, hi) ELSE ISqrt(n, lo, mid - 1)
sqrt(x) ==
    IF IsNaN(x) \/ FLt(x, Fl(0)) THEN NaN
    ELSE IF ~isfinite(x) THEN x
    ELSE Rat(ISqrt((x.n * SqrtScale * SqrtScale) \div x.d, 0, 4 * SqrtScale), SqrtScale)

\* np.cumsum
cumsum(a) ==
    LET c[i \in DOMAIN a] == IF i = 1 THEN a[1] ELSE FAdd(c[i - 1], a[i]) IN c
\* x[0] = seed; x[i] = x[i-1] + deltas[i]
Accumulate(seed, deltas) ==
    LET x[i \in 1..(Len(deltas) + 1)] == IF i = 1 THEN seed ELSE FAdd(x[i - 1], deltas[i - 1]) IN x

GeomOut(DX, DY, TVD) == [DX |-> DX, DY |-> DY, TVD |-> TVD]
NoOut == GeomOut(<<>>, <<>>, <<>>)

\* the default of minimum_curvature's small_angle parameter (radians)
small_angle == Rat(1, 100000000)

\* the ratio factor of one station pair
RatioFactorOne(dl, small) == Fl(1)
RatioFactorNoGuard(dl, small) == FMul(FDiv(Fl(2), dl), tan(FDiv(dl, Fl(2))))
ratio_factor(dl, small) == IF FLt(dl, small) THEN Fl(1) ELSE FMul(FDiv(Fl(2), dl), tan(FDiv(dl, Fl(2))))

\* one pass of the station loop of minimum_curvature: (dN, dE, dV) of the
\* pair (i-1, i), 2 <= i <= n, INC and AZI in radians
mc_step(MD, INC, AZI, i, small) ==
    LET dmd == FSub(MD[i], MD[i - 1])
        i1 == INC[i - 1]
        a1 == AZI[i - 1]
        i2 == INC[i]
        a2 == AZI[i]
        cos_dl == clip(FAdd(FMul(cos(i1), cos(i2)), FMul(FMul(sin(i1), sin(i2)), cos(FSub(a2, a1)))), Fl(-1), Fl(1))
        dl == arccos(cos_dl)
        rf == ratio_factor(dl, small)
        half == FMul(FMul(Rat(1, 2), dmd), rf)
    IN [dN |-> FMul(half, FAdd(FMul(sin(i1), cos(a1)), FMul(sin(i2), cos(a2)))),
        dE |-> FMul(half, FAdd(FMul(sin(i1), sin(a1)), FMul(sin(i2), sin(a2)))),
        dV |-> FMul(half, FAdd(cos(i1), cos(i2))),
        dl |-> dl, rf |-> rf]

\* Survey.minimum_curvature
minimum_curvature(MD, INC_deg, AZI_deg, xhead, yhead, datum, small) ==
    LET INC == [i \in DOMAIN INC_deg |-> deg2rad(INC_deg[i])]
        AZI == [i \in DOMAIN AZI_deg |-> deg2rad(AZI_deg[i])]
        n   == Len(MD)
    IN IF require_strictly_increasing(MD).err # "" THEN require_strictly_increasing(MD)
       ELSE IF ~(Len(INC) = n /\ Len(AZI) = n) THEN Throw("ValueError", "MD, INC, AZI must have the same length")
       ELSE IF n = 0 THEN Throw("IndexError", "index 0 is out of bounds")
       ELSE LET st == [i \in 1..(n - 1) |-> mc_step(MD, INC, AZI, i + 1, small)]
            IN Return(GeomOut(Accumulate(xhead, [i \in 1..(n - 1) |-> st[i].dE]),
                              Accumulate(yhead, [i \in 1..(n - 1) |-> st[i].dN]),
                              Accumulate(datum, [i \in 1..(n - 1) |-> st[i].dV])))

\* Survey.off2tvd, for DX and DY as long as MD
off2tvd(MD, DX, DY) ==
    IF require_strictly_increasing(MD).err # "" THEN require_strictly_increasing(MD)
    ELSE LET offMD == diff(MD)
             offDX == diff(DX)
             offDY == diff(DY)
             TVD == [i \in DOMAIN MD |-> IF i = 1 THEN MD[1] ELSE sqrt(FSub(FSub(FMul(offMD[i - 1], offMD[i - 1]), FMul(offDX[i - 1], offDX[i - 1])), FMul(offDY[i - 1], offDY[i - 1])))]
         IN Return(GeomOut(<<>>, <<>>, cumsum(TVD)))

\* Survey.inc2tvd, for INC as long as MD: TVD starts as a copy of MD and its
\* tail is overwritten by the running sum of dMD * cos(INC[1:])
inc2tvd(INC, MD) ==
    IF require_strictly_increasing(MD).err # "" THEN require_strictly_increasing(MD)
    ELSE LET offset == diff(MD)
             radian == [i \in 1..(Len(INC) - 1) |-> deg2rad(INC[i + 1])]
             run == cumsum([i \in DOMAIN offset |-> FMul(offset[i], cos(radian[i]))])
         IN Return(GeomOut(<<>>, <<>>, [i \in DOMAIN MD |-> IF i = 1 THEN MD[1] ELSE run[i - 1]]))

\* x < _EPS (1e-12) for x a multiple of 1/SqrtScale, as every distance
\* computed below is: of these only values <= 0 lie below _EPS
LtEps(x) == FLt(x, Rat(1, SqrtScale))
\* np.degrees(np.arctan2(y, x)) where the direction is a multiple of 45 degrees
atan2deg(y, x) ==
    CASE y = Fl(0) /\ FGe(x, Fl(0)) -> Fl(0)
      [] y = Fl(0) /\ FLt(x, Fl(0)) -> Fl(180)
      [] FGt(y, Fl(0)) /\ x = Fl(0) -> Fl(90)
      [] FLt(y, Fl(0)) /\ x = Fl(0) -> Fl(-90)
      [] FGt(y, Fl(0)) /\ x = y -> Fl(45)
      [] FGt(y, Fl(0)) /\ x = FNeg(y) -> Fl(135)
      [] FLt(y, Fl(0)) /\ x = FNeg(y) -> Fl(-45)
      [] FLt(y, Fl(0)) /\ x = y -> Fl(-135)
\* np.degrees(np.arctan2(y, _EPS)) for y = 0 or |y| >= 1/SqrtScale: just
\* inside 90 degrees, cut to 1/1000 of a degree
atan2deg_eps(y) == IF y = Fl(0) THEN Fl(0) ELSE IF FGt(y, Fl(0)) THEN Rat(89999, 1000) ELSE Rat(-89999, 1000)
\* np.hypot
hypot(a, b) == sqrt(FAdd(FMul(a, a), FMul(b, b)))
\* a % 360.0 for 0 <= a < 720
mod360(a) == IF FGe(a, Fl(360)) THEN FSub(a, Fl(360)) ELSE a
Angle2(INC, AZI) == [INC |-> INC, AZI |-> AZI]

\* Survey.solve_straight_to_target
SolveRequireDistance(x_target, y_target, tvd_target, x0, y0, tvd0, md_start, md_end) ==
    LET dmd == FSub(md_end, md_start)
        dE == FSub(x_target, x0)
        dN == FSub(y_target, y0)
        dV == FSub(tvd_target, tvd0)
        dh == hypot(dE, dN)
        dist == sqrt(FAdd(FMul(dh, dh), FMul(dV, dV)))
    IN IF FLe(dmd, Fl(0)) THEN Throw("ValueError", "md_end must be greater than md_start")
       ELSE IF dist # dmd THEN Throw("ValueError", "target is not at distance md_end - md_start")
       ELSE IF LtEps(dist) THEN Return(Angle2(Fl(0), Fl(0)))
       ELSE Return(Angle2(IF dV # Fl(0) THEN atan2deg(dh, dV) ELSE atan2deg_eps(dh), mod360(FAdd(atan2deg(dE, dN), Fl(360)))))
SolveRejectDegenerate(x_target, y_target, tvd_target, x0, y0, tvd0, md_start, md_end) ==
    LET dmd == FSub(md_end, md_start)
        dE == FSub(x_target, x0)
        dN == FSub(y_target, y0)
        dV == FSub(tvd_target, tvd0)
        dh == hypot(dE, dN)
        dist == sqrt(FAdd(FMul(dh, dh), FMul(dV, dV)))
    IN IF FLe(dmd, Fl(0)) THEN Throw("ValueError", "md_end must be greater than md_start")
       ELSE IF LtEps(dist) THEN Throw("ValueError", "target coincides with the origin")
       ELSE Return(Angle2(IF dV # Fl(0) THEN atan2deg(dh, dV) ELSE atan2deg_eps(dh), mod360(FAdd(atan2deg(dE, dN), Fl(360)))))
solve_straight_to_target(x_target, y_target, tvd_target, x0, y0, tvd0, md_start, md_end) ==
    LET dmd == FSub(md_end, md_start)
        dE == FSub(x_target, x0)
        dN == FSub(y_target, y0)
        dV == FSub(tvd_target, tvd0)
        dh == hypot(dE, dN)
        dist == sqrt(FAdd(FMul(dh, dh), FMul(dV, dV)))
    IN IF FLe(dmd, Fl(0)) THEN Throw("ValueError", "md_end must be greater than md_start")
       ELSE IF LtEps(dist) THEN Return(Angle2(Fl(0), Fl(0)))
       ELSE Return(Angle2(IF dV # Fl(0) THEN atan2deg(dh, dV) ELSE atan2deg_eps(dh), mod360(FAdd(atan2deg(dE, dN), Fl(360)))))

---------------------------------------------------------------------------
(* Tops: queries by name                                                   *)

\* Tops.index: the 0-based position, ValueError when the name is absent
IndexRaisesKeyError(st, name) ==
    IF name \notin Range(st.formation) THEN Throw("KeyError", "not found")
    ELSE Return(IndexOf(st.formation, name) - 1)
Tops_index(st, name) ==
    IF name \notin Range(st.formation) THEN Throw("ValueError", "not found")
    ELSE Return(IndexOf(st.formation, name) - 1)

\* Tops.get_top
Tops_get_top(st, name) ==
    IF Tops_index(st, name).err # "" THEN Tops_index(st, name)
    ELSE Return(st.depth[Tops_index(st, name).val + 1])

\* Tops.get_limit: (top, bottom), bottom None for the deepest
GetLimitOffByOne(st, name) ==
    IF Tops_index(st, name).err # "" THEN Tops_index(st, name)
    ELSE LET i == Tops_index(st, name).val
         IN Return(<<st.depth[i + 1], IF i < Len(st.depth) - 2 THEN st.depth[i + 2] ELSE NoFloat>>)
Tops_get_limit(st, name) ==
    IF Tops_index(st, name).err # "" THEN Tops_index(st, name)
    ELSE LET i == Tops_index(st, name).val
         IN Return(<<st.depth[i + 1], IF i < Len(st.depth) - 1 THEN st.depth[i + 2] ELSE NoFloat>>)

---------------------------------------------------------------------------
(* SpecTops: one Tops instance                                             *)

DepthInputs == {Fl(i) : i \in -1..MaxDepth} \cup {NaN, PosInf, NegInf}
MdQueries   == {Fl(i) : i \in -1..(MaxDepth + 1)}
ColorDicts  == UNION {[K -> Colors] : K \in SUBSET Names}

Cur == TopsState(formation, depth, facecolor)
Call(op, a1, a2, d, names, depths, r, val) == [op |-> op, a1 |-> a1, a2 |-> a2, d |-> d, names |-> names, depths |-> depths, err |-> r.err, msg |-> r.msg, val |-> val]
NoCall == [op |-> "none", a1 |-> None, a2 |-> None, d |-> NoFloat, names |-> <<>>, depths |-> <<>>, err |-> "", msg |-> "", val |-> None]

SetTops(st) == /\ formation' = st.formation
               /\ depth' = st.depth
               /\ facecolor' = st.facecolor

Construct ==
    /\ alive = "none"
    /\ \E names \in SeqsUpTo(Names, MaxLen), depths \in SeqsUpTo(DepthInputs, MaxLen), colors \in ColorDicts :
         LET r == Tops_post_init(names, depths, colors) IN
           /\ alive' = IF r.err = "" THEN "built" ELSE "failed"
           /\ SetTops(r.st)
           /\ owner' = IF r.err = "" THEN [x \in Range(names) |-> depths[IndexOf(names, x)]] ELSE EmptyDict
           /\ ret' = Call("construct", None, None, NoFloat, names, depths, r, None)
    /\ UNCHANGED <<salive, survey, sret, gret, shareVars>>

Add ==
    /\ alive = "built"
    /\ \E name \in Names, d \in DepthInputs, color \in Colors \cup {None} :
         LET r == Tops_add(Cur, name, d, color) IN
           /\ SetTops(r.st)
           /\ owner' = IF r.err = "" THEN DictSet(owner, name, d) ELSE owner
           /\ ret' = Call("add", name, None, d, <<>>, <<>>, r, None)
    /\ UNCHANGED <<alive, salive, survey, sret, gret, shareVars>>

Remove ==
    /\ alive = "built"
    /\ \E name \in Names :
         LET r == Tops_remove(Cur, name) IN
           /\ SetTops(r.st)
           /\ owner' = DictPop(owner, name)
           /\ ret' = Call("remove", name, None, NoFloat, <<>>, <<>>, r, None)
    /\ UNCHANGED <<alive, salive, survey, sret, gret, shareVars>>

Rename ==
    /\ alive = "built"
    /\ \E old \in Names, new \in Names :
         LET r == Tops_rename(Cur, old, new) IN
           /\ SetTops(r.st)
           /\ owner' = IF r.err = "" THEN DictSet(DictPop(owner, old), new, owner[old]) ELSE owner
           /\ ret' = Call("rename", old, new, NoFloat, <<>>, <<>>, r, None)
    /\ UNCHANGED <<alive, salive, survey, sret, gret, shareVars>>

MergeFacecolors ==
    /\ alive = "built"
    /\ \E mapping \in ColorDicts :
         LET r == Tops_merge_facecolors(Cur, mapping) IN
           /\ SetTops(r.st)
           /\ ret' = Call("merge_facecolors", None, None, NoFloat, <<>>, <<>>, r, None)
    /\ UNCHANGED <<alive, owner, salive, survey, sret, gret, shareVars>>

FindAtMd ==
    /\ alive = "built"
    /\ \E md \in MdQueries :
         ret' = Call("find_at_md", None, None, md, <<>>, <<>>, Ok(Cur), Tops_find_at_md(Cur, md))
    /\ UNCHANGED <<alive, formation, depth, facecolor, owner, salive, survey, sret, gret, shareVars>>

\* a query by name: val keeps the returned value, None when it raised
Query(op, name, r) ==
    /\ ret' = Call(op, name, None, NoFloat, <<>>, <<>>, r, IF r.err = "" THEN r.val ELSE None)
    /\ UNCHANGED <<alive, formation, depth, facecolor, owner, salive, survey, sret, gret, shareVars>>

Index ==
    /\ alive = "built"
    /\ \E name \in Names : Query("index", name, Tops_index(Cur, name))

GetTop ==
    /\ alive = "built"
    /\ \E name \in Names : Query("get_top", name, Tops_get_top(Cur, name))

GetLimit ==
    /\ alive = "built"
    /\ \E name \in Names : Query("get_limit", name, Tops_get_limit(Cur, name))

\* a name->MD dict is a sequence of <<name, md>> pairs in insertion order,
\* its keys pairwise different
Mappings == {p \in SeqsUpTo(Names \X DepthInputs, MaxLen) : \A i, j \in DOMAIN p : p[i][1] = p[j][1] => i = j}
keys(mapping)   == [i \in DOMAIN mapping |-> mapping[i][1]]
values(mapping) == [i \in DOMAIN mapping |-> mapping[i][2]]

\* Tops.from_mapping: cls(list(mapping.keys()), list(mapping.values()), facecolor)
Tops_from_mapping(mapping, colors) == Tops_post_init(keys(mapping), values(mapping), colors)

\* Tops.to_mapping: {name: float(md) for name, md in zip(_formation, _depth)};
\* a repeated name keeps its first position and takes its last depth
Tops_to_mapping(st) ==
    LET n     == IF Len(st.formation) <= Len(st.depth) THEN Len(st.formation) ELSE Len(st.depth)
        first == {i \in 1..n : \A j \in 1..(i - 1) : st.formation[j] # st.formation[i]}
        last(x) == CHOOSE i \in 1..n : st.formation[i] = x /\ \A j \in (i + 1)..n : st.formation[j] # x
        pos(k) == CHOOSE i \in first : Cardinality({j \in first : j < i}) = k - 1
    IN [k \in 1..Cardinality(first) |-> <<st.formation[pos(k)], st.depth[last(st.formation[pos(k)])]>>]

FromMapping ==
    /\ alive = "none"
    /\ \E mapping \in Mappings, colors \in ColorDicts :
         LET r == Tops_from_mapping(mapping, colors) IN
           /\ alive' = IF r.err = "" THEN "built" ELSE "failed"
           /\ SetTops(r.st)
           /\ owner' = IF r.err = "" THEN [x \in Range(keys(mapping)) |-> values(mapping)[IndexOf(keys(mapping), x)]] ELSE EmptyDict
           /\ ret' = Call("from_mapping", None, None, NoFloat, keys(mapping), values(mapping), r, None)
    /\ UNCHANGED <<salive, survey, sret, gret, shareVars>>

\* to_mapping; when it directly follows from_mapping the record keeps the
\* mapping that was given (a1 names that constructor)
ToMapping ==
    /\ alive = "built"
    /\ LET r == Return(Tops_to_mapping(Cur))
           chained == ret.op = "from_mapping"
       IN ret' = Call("to_mapping", IF chained THEN "from_mapping" ELSE None, None, NoFloat,
                      IF chained THEN ret.names ELSE <<>>, IF chained THEN ret.depths ELSE <<>>, r, r.val)
    /\ UNCHANGED <<alive, formation, depth, facecolor, owner, salive, survey, sret, gret, shareVars>>

Intervals ==
    /\ alive = "built"
    /\ Query("intervals", None, Return(Tops_intervals(Cur)))

---------------------------------------------------------------------------
(* SpecSurvey: one Survey instance                                         *)

\* cls(...): the dataclass constructor runs __post_init__
Survey_new(sv) == IF validate_shapes_and_monotonicity(sv).err # "" THEN validate_shapes_and_monotonicity(sv) ELSE Return(sv)
\* the second _validate_shapes_and_monotonicity call of the from_* paths
Revalidated(r) == IF r.err # "" THEN r ELSE IF validate_shapes_and_monotonicity(r.val).err # "" THEN validate_shapes_and_monotonicity(r.val) ELSE r

\* Survey.from_md_tvd
from_md_tvd(MD, TVD) == Revalidated(Survey_new(SurveyRec(Arr(MD), Arr(TVD), Absent, Absent, Absent, Absent, Fl(0), Fl(0), Fl(0))))

\* Survey.from_md_inc_azi
from_md_inc_azi(MD, INC_deg, AZI_deg, xhead, yhead, datum) ==
    LET g == minimum_curvature(MD, INC_deg, AZI_deg, xhead, yhead, datum, small_angle) IN
    IF g.err # "" THEN g
    ELSE Revalidated(Survey_new(SurveyRec(Arr(MD), Arr(g.val.TVD), Arr(g.val.DX), Arr(g.val.DY), Arr(INC_deg), Arr(AZI_deg), xhead, yhead, datum)))

\* Survey.from_md_xyz
from_md_xyz(MD, DX, DY, TVD) == Revalidated(Survey_new(SurveyRec(Arr(MD), Arr(TVD), Arr(DX), Arr(DY), Absent, Absent, Fl(0), Fl(0), Fl(0))))

\* inputs
StationVals == {Fl(i) : i \in 0..MaxVal}
StationSeqs == SeqsUpTo(StationVals, MaxStations)
Angles      == {Fl(0), Fl(90)}
Ties        == {<<Fl(0), Fl(0), Fl(0)>>, <<Fl(1), Fl(2), Fl(5)>>}
OffVals     == {Fl(0), Fl(1)}
Ramp(k)     == [i \in 1..k |-> Fl(i)]
Zeros(k)    == [i \in 1..k |-> Fl(0)]
\* an optional array of the generic constructor: absent, as long as the
\* station count n, or one longer
Shaped(how, n, a) == IF how = "none" THEN Absent ELSE IF how = "same" THEN Arr(SubSeq(a, 1, n)) ELSE Arr(a)
\* interpolation queries: one value, or two increasing values, on the grid of
\* half units from -1/2 to MaxVal + 1/2
QueryVals == {Rat(k, 2) : k \in -1..(2 * MaxVal + 1)}
Queries   == {<<a>> : a \in QueryVals} \cup {<<p[1], p[2]>> : p \in {x \in QueryVals \X QueryVals : FLt(x[1], x[2])}}

SCall(op, path, args, q, src, r) == [op |-> op, path |-> path, args |-> args, q |-> q, src |-> src, err |-> r.err, msg |-> r.msg, out |-> IF op = "construct" THEN <<>> ELSE r.val]
NoSCall == [op |-> "none", path |-> "", args |-> NoSurvey, q |-> <<>>, src |-> <<>>, err |-> "", msg |-> "", out |-> <<>>]

Built(path, args, r) ==
    /\ salive' = IF r.err = "" THEN "built" ELSE "failed"
    /\ survey' = IF r.err = "" THEN r.val ELSE NoSurvey
    /\ sret' = SCall("construct", path, args, <<>>, <<>>, r)
    /\ UNCHANGED <<alive, formation, depth, facecolor, owner, ret, gret, shareVars>>

\* Survey(MD=..., TVD=..., DX=..., DY=..., INC=..., AZI=...)
NewSurvey ==
    /\ salive = "none"
    /\ \E md \in {Absent} \cup {Arr(a) : a \in StationSeqs}, pat \in [{"TVD", "DX", "DY", "INC", "AZI"} -> {"none", "same", "off"}] :
         \E n \in (IF md.has THEN {Len(md.a)} ELSE 0..MaxStations) :
           LET args == SurveyRec(md, Shaped(pat["TVD"], n, Ramp(n + 1)), Shaped(pat["DX"], n, Ramp(n + 1)), Shaped(pat["DY"], n, Ramp(n + 1)),
                                 Shaped(pat["INC"], n, Zeros(n + 1)), Shaped(pat["AZI"], n, Zeros(n + 1)), Fl(0), Fl(0), Fl(0))
           IN Built("init", args, Survey_new(args))

\* a survey longer than any max_points drawn below
LongRamp == Ramp(MaxStations + 2)
\* max_points of downsample
MaxPoints == 4
PointCounts == -1..MaxPoints

FromMdTvd ==
    /\ salive = "none"
    /\ \E MD \in StationSeqs \cup {LongRamp}, TVD \in StationSeqs \cup {LongRamp} :
         Built("from_md_tvd", SurveyRec(Arr(MD), Arr(TVD), Absent, Absent, Absent, Absent, Fl(0), Fl(0), Fl(0)), from_md_tvd(MD, TVD))

FromMdIncAzi ==
    /\ salive = "none"
    /\ \E MD \in StationSeqs, tie \in Ties :
         \E INC \in [1..Len(MD) -> Angles], AZI \in [1..Len(MD) -> Angles] \cup {Zeros(Len(MD) + 1)} :
           Built("from_md_inc_azi", SurveyRec(Arr(MD), Absent, Absent, Absent, Arr(INC), Arr(AZI), tie[1], tie[2], tie[3]), from_md_inc_azi(MD, INC, AZI, tie[1], tie[2], tie[3]))

FromMdXyz ==
    /\ salive = "none"
    /\ \E MD \in StationSeqs :
         \E DX \in {Ramp(Len(MD)), Ramp(Len(MD) + 1)}, DY \in {Ramp(Len(MD)), Ramp(Len(MD) + 1)}, TVD \in {Ramp(Len(MD)), Ramp(Len(MD) + 1)} :
           Built("from_md_xyz", SurveyRec(Arr(MD), Arr(TVD), Arr(DX), Arr(DY), Absent, Absent, Fl(0), Fl(0), Fl(0)), from_md_xyz(MD, DX, DY, TVD))

\* The instance is immutable: a query sees the state its construction left,
\* so queries are made on the freshly constructed instance.
Md2Tvd ==
    /\ salive = "built" /\ sret.op = "construct"
    /\ \E q \in Queries : sret' = SCall("md2tvd", "", NoSurvey, q, <<>>, md2tvd(survey, q))
    /\ UNCHANGED <<alive, formation, depth, facecolor, owner, ret, salive, survey, gret, shareVars>>

\* tvd2md of a grid query, or of the TVD values the last md2tvd returned
\* (src then keeps the MD values that call was asked for)
Tvd2Md ==
    /\ salive = "built"
    /\ \/ \E q \in Queries : sret.op = "construct" /\ sret' = SCall("tvd2md", "", NoSurvey, q, <<>>, tvd2md(survey, q))
       \/ /\ sret.op = "md2tvd" /\ sret.err = ""
          /\ sret' = SCall("tvd2md", "", NoSurvey, sret.out, sret.q, tvd2md(survey, sret.out))
    /\ UNCHANGED <<alive, formation, depth, facecolor, owner, ret, salive, survey, gret, shareVars>>

ViewPlan ==
    /\ salive = "built" /\ sret.op = "construct"
    /\ sret' = SCall("view_plan", "", NoSurvey, <<>>, <<>>, view_plan(survey))
    /\ UNCHANGED <<alive, formation, depth, facecolor, owner, ret, salive, survey, gret, shareVars>>

ViewSection ==
    /\ salive = "built" /\ sret.op = "construct"
    /\ sret' = SCall("view_section", "", NoSurvey, <<>>, <<>>, view_section(survey))
    /\ UNCHANGED <<alive, formation, depth, facecolor, owner, ret, salive, survey, gret, shareVars>>

\* downsample(max_points); q keeps max_points
Downsample ==
    /\ salive = "built" /\ sret.op = "construct"
    /\ \E max_points \in PointCounts : sret' = SCall("downsample", "", NoSurvey, <<max_points>>, <<>>, downsample(survey, max_points))
    /\ UNCHANGED <<alive, formation, depth, facecolor, owner, ret, salive, survey, gret, shareVars>>

NextSurvey == NewSurvey \/ FromMdTvd \/ FromMdIncAzi \/ FromMdXyz \/ Md2Tvd \/ Tvd2Md \/ ViewPlan \/ ViewSection \/ Downsample

---------------------------------------------------------------------------
(* SpecGeom: the static helpers on bounded inputs                          *)

GCall(op, MD, A1, A2, tie, r) == [op |-> op, MD |-> MD, A1 |-> A1, A2 |-> A2, tie |-> tie, err |-> r.err, msg |-> r.msg, out |-> IF r.err = "" THEN r.val ELSE NoOut]
NoGCall == [op |-> "none", MD |-> <<>>, A1 |-> <<>>, A2 |-> <<>>, tie |-> <<>>, err |-> "", msg |-> "", out |-> NoOut]

\* each helper is a pure function: it is applied once to inputs drawn here
MinimumCurvature ==
    /\ gret.op = "none"
    /\ \E MD \in StationSeqs, tie \in Ties :
         \E INC \in [1..Len(MD) -> Angles], AZI \in [1..Len(MD) -> Angles] \cup {Zeros(Len(MD) + 1)} :
           gret' = GCall("minimum_curvature", MD, INC, AZI, tie, minimum_curvature(MD, INC, AZI, tie[1], tie[2], tie[3], small_angle))
    /\ UNCHANGED <<alive, formation, depth, facecolor, owner, ret, salive, survey, sret, shareVars>>

Off2Tvd ==
    /\ gret.op = "none"
    /\ \E MD \in StationSeqs :
         \E DX \in [1..Len(MD) -> OffVals], DY \in [1..Len(MD) -> OffVals] :
           gret' = GCall("off2tvd", MD, DX, DY, <<>>, off2tvd(MD, DX, DY))
    /\ UNCHANGED <<alive, formation, depth, facecolor, owner, ret, salive, survey, sret, shareVars>>

Inc2Tvd ==
    /\ gret.op = "none"
    /\ \E MD \in StationSeqs :
         \E INC \in [1..Len(MD) -> Angles] :
           gret' = GCall("inc2tvd", MD, INC, <<>>, <<>>, inc2tvd(INC, MD))
    /\ UNCHANGED <<alive, formation, depth, facecolor, owner, ret, salive, survey, sret, shareVars>>

\* origins, and target offsets along one horizontal axis at a time, one unit
\* up, level or one unit down
Origins == {<<Fl(0), Fl(0), Fl(0)>>, <<Fl(1), Fl(2), Fl(1)>>}
Deltas  == {d \in (-1..1) \X (-1..1) \X (-1..1) : d[1] = 0 \/ d[2] = 0}
\* MD holds (md_start, md_end), A1 the target, A2 the origin
SolveStraightToTarget ==
    /\ gret.op = "none"
    /\ \E o \in Origins, d \in Deltas, md_start \in StationVals, md_end \in StationVals :
         LET t == <<FAdd(o[1], Fl(d[1])), FAdd(o[2], Fl(d[2])), FAdd(o[3], Fl(d[3]))>>
         IN gret' = GCall("solve_straight_to_target", <<md_start, md_end>>, t, o, <<>>, solve_straight_to_target(t[1], t[2], t[3], o[1], o[2], o[3], md_start, md_end))
    /\ UNCHANGED <<alive, formation, depth, facecolor, owner, ret, salive, survey, sret, shareVars>>

NextGeom == MinimumCurvature \/ Off2Tvd \/ Inc2Tvd \/ SolveStraightToTarget


---------------------------------------------------------------------------
(* SpecShare: object identity. A caller holds its own input objects and    *)
(* builds two handles from them; every field of a handle is bound to an    *)
(* object of the heap, and a call returns references                       *)

Ids == {"x", "y"}

Obj(kind, v)   == [kind |-> kind, v |-> v]
Put(h, r, o)   == [x \in DOMAIN h \cup {r} |-> IF x = r THEN o ELSE h[x]]
Restrict(h, S) == [x \in DOMAIN h \cap S |-> h[x]]
\* the k-th unused reference
Fresh(h, k) ==
    LET free == (1..(Cardinality(DOMAIN h) + k)) \ DOMAIN h
    IN CHOOSE r \in free : Cardinality({c \in free : c < r}) = k - 1

NoTops == [state |-> "none", f |-> 0, d |-> 0, c |-> 0, src |-> [f |-> 0, d |-> 0, c |-> 0]]
NoSurv == [state |-> "none", MD |-> 0, TVD |-> 0, MD0 |-> <<>>, TVD0 |-> <<>>]
ShareCall(op, i, out, err) == [op |-> op, inst |-> i, out |-> out]
NoShareCall == ShareCall("none", "", {}, "")

TopsRefs(i)   == IF tinst[i].state = "built" THEN {tinst[i].f, tinst[i].d, tinst[i].c} ELSE {}
SurveyRefs(i) == IF sinst[i].state = "built" THEN {sinst[i].MD, sinst[i].TVD} ELSE {}
InstanceRefs  == UNION {TopsRefs(i) \cup SurveyRefs(i) : i \in Ids}
\* the heap at the start of a call: the results of the call before, which
\* belong to no handle, have been dropped by the caller
Base == Restrict(heap, held \cup InstanceRefs)

\* what the methods of a handle read
TopsView(i)   == TopsState(heap[tinst[i].f].v, heap[tinst[i].d].v, heap[tinst[i].c].v)
SurveyView(i) == SurveyRec(Arr(heap[sinst[i].MD].v), Arr(heap[sinst[i].TVD].v), Absent, Absent, Absent, Absent, Fl(0), Fl(0), Fl(0))

ShareNames  == {"A", "B"}
ShareDepths == {Fl(1)}
ShareColors == UNION {[K -> Colors] : K \in SUBSET ShareNames}
ShareArrays == {Ramp(3)}
\* the caller's assignment: a[0] = 0.0
ShareWrites    == {Fl(0)}
WritePositions == {1}
FloatKinds     == {"ndarray", "list"}
\* the depth a handle is asked to convert
ShareQueries   == {Fl(2)}
\* what the caller builds its handles from
InputNames    == {<<"A">>}
InputDepths   == {<<Fl(1)>>}
InputColors   == {[n \in {"A"} |-> "red"]}
InputMappings == {<< <<"A", Fl(1)>> >>}

\* the caller's inputs: a list of names, a list of depths and a color dict
AllocTopsInputs ==
    /\ DOMAIN heap = {}
    /\ \E names \in InputNames, depths \in InputDepths, colors \in InputColors :
         heap' = <<Obj("names", names), Obj("depths", depths), Obj("colors", colors)>>
    /\ held' = {1, 2, 3}
    /\ call' = ShareCall("alloc", "", {}, "")
    /\ UNCHANGED <<topsVars, surveyVars, gret, tinst, sinst>>

\* the caller's inputs: a name->MD dict and a color dict
AllocMapping ==
    /\ DOMAIN heap = {}
    /\ \E mapping \in InputMappings, colors \in InputColors :
         heap' = <<Obj("mapping", mapping), Obj("colors", colors)>>
    /\ held' = {1, 2}
    /\ call' = ShareCall("alloc", "", {}, "")
    /\ UNCHANGED <<topsVars, surveyVars, gret, tinst, sinst>>

\* the caller's inputs: two station arrays, each a float ndarray or a list
AllocArrays ==
    /\ DOMAIN heap = {}
    /\ \E ka \in {"ndarray", "list"}, kb \in {"ndarray", "list"}, a \in ShareArrays, b \in ShareArrays :
         heap' = <<Obj(ka, a), Obj(kb, b)>>
    /\ held' = {1, 2}
    /\ call' = ShareCall("alloc", "", {}, "")
    /\ UNCHANGED <<topsVars, surveyVars, gret, tinst, sinst>>

\* Tops.__post_init__: the objects the three private fields are bound to,
\* given the caller's objects src and the objects new made by list(...),
\* depths[order] and dict(...)
StoresGivenDict(src, new) == [f |-> new.f, d |-> new.d, c |-> src.c]
Tops_stores(src, new) == [f |-> new.f, d |-> new.d, c |-> new.c]

BuildTops(i, op, r, src) ==
    LET new == [f |-> Fresh(Base, 1), d |-> Fresh(Base, 2), c |-> Fresh(Base, 3)]
        st  == Tops_stores(src, new)
        h   == Put(Put(Put(Base, new.f, Obj("names", r.st.formation)), new.d, Obj("ndarray", r.st.depth)), new.c, Obj("colors", r.st.facecolor))
    IN /\ heap' = IF r.err = "" THEN h ELSE Base
       /\ tinst' = IF r.err = "" THEN [tinst EXCEPT ![i] = [state |-> "built", f |-> st.f, d |-> st.d, c |-> st.c, src |-> src]] ELSE tinst
       /\ call' = ShareCall(op, i, {}, r.err)
       /\ UNCHANGED <<topsVars, surveyVars, gret, sinst, held>>

ShareConstruct ==
    \E i \in Ids, f \in held, d \in held, c \in held :
       /\ tinst[i].state = "none"
       /\ heap[f].kind = "names" /\ heap[d].kind = "depths" /\ heap[c].kind = "colors"
       /\ BuildTops(i, "construct", Tops_post_init(heap[f].v, heap[d].v, heap[c].v), [f |-> f, d |-> d, c |-> c])

\* from_mapping: keys() and values() are listed into objects of the call
ShareFromMapping ==
    \E i \in Ids, mp \in held, c \in held :
       /\ tinst[i].state = "none"
       /\ heap[mp].kind = "mapping" /\ heap[c].kind = "colors"
       /\ BuildTops(i, "from_mapping", Tops_from_mapping(heap[mp].v, heap[c].v), [f |-> 0, d |-> 0, c |-> c])

\* add, remove, rename, merge_facecolors: the list and the dict are changed
\* in place; np.insert and np.delete make a new array and _depth is rebound.
\* The old array is released unless someone else holds it, and the new one
\* then takes its reference.
ShareMutate(i, op, r, rebinds) ==
    LET t  == tinst[i]
        h1 == Put(Put(Base, t.f, Obj("names", r.st.formation)), t.c, Obj("colors", r.st.facecolor))
        nd == IF t.d \in held \cup UNION {TopsRefs(j) : j \in Ids \ {i}} THEN Fresh(h1, 1) ELSE t.d
        h2 == Put(h1, nd, Obj("ndarray", r.st.depth))
    IN /\ heap' = IF r.err # "" THEN Base ELSE IF rebinds THEN h2 ELSE h1
       /\ tinst' = IF r.err = "" /\ rebinds THEN [tinst EXCEPT ![i].d = nd] ELSE tinst
       /\ call' = ShareCall(op, i, {}, r.err)
       /\ UNCHANGED <<topsVars, surveyVars, gret, sinst, held>>

ShareAdd ==
    \E i \in Ids, name \in ShareNames, d \in ShareDepths, color \in Colors \cup {None} :
       /\ tinst[i].state = "built"
       /\ ShareMutate(i, "add", Tops_add(TopsView(i), name, d, color), TRUE)

ShareRemove ==
    \E i \in Ids, name \in ShareNames :
       /\ tinst[i].state = "built"
       /\ ShareMutate(i, "remove", Tops_remove(TopsView(i), name), name \in Range(TopsView(i).formation))

ShareRename ==
    \E i \in Ids, old \in ShareNames, new \in ShareNames :
       /\ tinst[i].state = "built"
       /\ ShareMutate(i, "rename", Tops_rename(TopsView(i), old, new), FALSE)

ShareMergeFacecolors ==
    \E i \in Ids, mapping \in ShareColors :
       /\ tinst[i].state = "built"
       /\ ShareMutate(i, "merge_facecolors", Tops_merge_facecolors(TopsView(i), mapping), FALSE)

\* the read-only methods of Tops build their result from the three fields
\* and return floats, names and containers of their own
TopsReadOnly == {"get_top", "get_limit", "intervals", "find_at_md", "to_mapping"}
ShareTopsQuery ==
    \E i \in Ids, op \in TopsReadOnly :
       /\ tinst[i].state = "built"
       /\ heap' = Base
       /\ call' = ShareCall(op, i, {}, "")
       /\ UNCHANGED <<topsVars, surveyVars, gret, tinst, sinst, held>>

\* np.asarray(x, float): a float ndarray is returned as it is, anything else
\* is converted into a new array
asarray(kind, ref, fresh) == IF kind = "ndarray" THEN ref ELSE fresh

ShareFromMdTvd ==
    \E i \in Ids, a \in held, b \in held :
       /\ sinst[i].state = "none" /\ a < b
       /\ heap[a].kind \in {"ndarray", "list"} /\ heap[b].kind \in {"ndarray", "list"}
       /\ LET r  == from_md_tvd(heap[a].v, heap[b].v)
              md == asarray(heap[a].kind, a, Fresh(Base, 1))
              tv == asarray(heap[b].kind, b, Fresh(Base, 2))
              h  == Put(Put(Base, md, Obj("ndarray", heap[a].v)), tv, Obj("ndarray", heap[b].v))
          IN /\ heap' = IF r.err = "" THEN h ELSE Base
             /\ sinst' = IF r.err = "" THEN [sinst EXCEPT ![i] = [state |-> "built", MD |-> md, TVD |-> tv, MD0 |-> heap[a].v, TVD0 |-> heap[b].v]] ELSE sinst
             /\ call' = ShareCall("from_md_tvd", i, {}, r.err)
       /\ UNCHANGED <<topsVars, surveyVars, gret, tinst, held>>

\* a call that returns arrays it has made itself
ReturnArrays(i, op, err, arrays) ==
    LET refs == [k \in DOMAIN arrays |-> Fresh(Base, k)]
    IN /\ heap' = [x \in DOMAIN Base \cup Range(refs) |-> IF x \in DOMAIN Base THEN Base[x] ELSE Obj("ndarray", arrays[IndexOf(refs, x)])]
       /\ call' = ShareCall(op, i, Range(refs), err)
       /\ UNCHANGED <<topsVars, surveyVars, gret, tinst, sinst, held>>
\* a call that returns objects the handle is bound to
ReturnRefs(i, op, refs) ==
    /\ heap' = Base
    /\ call' = ShareCall(op, i, refs, "")
    /\ held' = held \cup refs
    /\ UNCHANGED <<topsVars, surveyVars, gret, tinst, sinst>>

\* np.interp leaves its result open when xp is not increasing: md2tvd is
\* called on a handle whose MD is increasing
ShareMd2Tvd ==
    \E i \in Ids, v \in ShareQueries :
       /\ sinst[i].state = "built"
       /\ require_strictly_increasing(SurveyView(i).MD.a).err = ""
       /\ LET r == md2tvd(SurveyView(i), <<v>>) IN ReturnArrays(i, "md2tvd", r.err, IF r.err = "" THEN <<r.val>> ELSE <<>>)

ShareTvd2Md ==
    \E i \in Ids, v \in ShareQueries :
       /\ sinst[i].state = "built"
       /\ LET r == tvd2md(SurveyView(i), <<v>>) IN ReturnArrays(i, "tvd2md", r.err, IF r.err = "" THEN <<r.val>> ELSE <<>>)

ShareDownsample ==
    \E i \in Ids, max_points \in 2..3 :
       /\ sinst[i].state = "built"
       /\ LET r == downsample(SurveyView(i), max_points)
          IN IF r.err # "" THEN ReturnArrays(i, "downsample", r.err, <<>>)
             ELSE IF Len(SurveyView(i).MD.a) <= max_points THEN ReturnRefs(i, "downsample", SurveyRefs(i))
             ELSE ReturnArrays(i, "downsample", "", r.val)

ShareViewSection ==
    \E i \in Ids :
       /\ sinst[i].state = "built"
       /\ ReturnRefs(i, "view_section", SurveyRefs(i))

\* the caller assigns to one element of an array or list it holds or has
\* just been returned
CallerWrite ==
    \E r \in (held \cup call.out) \cap DOMAIN heap :
       /\ heap[r].kind \in FloatKinds
       /\ \E pos \in DOMAIN heap[r].v \cap WritePositions, val \in ShareWrites :
            /\ heap[r].v[pos] # val
            /\ heap' = [heap EXCEPT ![r].v[pos] = val]
       /\ call' = ShareCall("write", "", call.out, "")
       /\ UNCHANGED <<topsVars, surveyVars, gret, tinst, sinst, held>>

NextShare ==
    \/ AllocTopsInputs \/ AllocMapping \/ AllocArrays
    \/ ShareConstruct \/ ShareFromMapping \/ ShareAdd \/ ShareRemove \/ ShareRename \/ ShareMergeFacecolors \/ ShareTopsQuery
    \/ ShareFromMdTvd \/ ShareMd2Tvd \/ ShareTvd2Md \/ ShareDownsample \/ ShareViewSection
    \/ CallerWrite

---------------------------------------------------------------------------

Init ==
    /\ alive = "none"
    /\ formation = <<>>
    /\ depth = <<>>
    /\ facecolor = EmptyDict
    /\ owner = EmptyDict
    /\ ret = NoCall
    /\ salive = "none"
    /\ survey = NoSurvey
    /\ sret = NoSCall
    /\ gret = NoGCall
    /\ heap = <<>>
    /\ tinst = [i \in Ids |-> NoTops]
    /\ sinst = [i \in Ids |-> NoSurv]
    /\ held = {}
    /\ call = NoShareCall

NextTops == Construct \/ Add \/ Remove \/ Rename \/ MergeFacecolors \/ FindAtMd \/ Index \/ GetTop \/ GetLimit \/ Intervals \/ FromMapping \/ ToMapping
SpecTops == Init /\ [][NextTops]_vars
SpecSurvey == Init /\ [][NextSurvey]_vars
SpecGeom == Init /\ [][NextGeom]_vars
SpecShare == Init /\ [][NextShare]_vars

---------------------------------------------------------------------------
(* Claims about Tops, checked under SpecTops                               *)

Sorted(d)      == \A i \in 1..(Len(d) - 1) : FLe(d[i], d[i + 1])
HasDup(names)  == \E i, j \in DOMAIN names : i < j /\ names[i] = names[j]
BadDepth(d)    == IsNaN(d) \/ d.k = "inf" \/ FLt(d, Fl(0))

\* C1: after construction and any sequence of add, remove, rename and
\* merge_facecolors the stored depths are non-decreasing shallow to deep and
\* formation[i] is the name whose depth (as given by the caller) is depth[i].
C1_SortedAndAligned ==
    alive = "built" =>
        /\ Len(formation) = Len(depth)
        /\ Sorted(depth)
        /\ DOMAIN owner = Range(formation)
        /\ \A i \in DOMAIN formation : depth[i] = owner[formation[i]]
\* an add that went in front of a strictly deeper top
C1_Witness ==
    /\ alive = "built" /\ ret.op = "add" /\ ret.err = ""
    /\ Len(formation) = 3 /\ formation[1] = ret.a1 /\ FLt(depth[1], depth[3])

\* C2: after construction and any sequence of add, remove and rename no
\* formation name occurs twice (names compared as given, case-sensitively).
C2_NoDuplicateNames == alive = "built" => ~HasDup(formation)
\* a rename onto another present name was refused
C2_Witness ==
    /\ ret.op = "rename" /\ ret.err = "ValueError" /\ ret.a1 # ret.a2
    /\ ret.a1 \in Range(formation) /\ ret.a2 \in Range(formation)

\* C3: find_at_md(md) returns the formation i with top_i <= md < top_(i+1),
\* the deepest formation for every md >= its top, and nothing when md is
\* shallower than the first top or there is no formation.
C3_FindAtMd ==
    ret.op = "find_at_md" =>
        LET md == ret.d
            n  == Len(formation)
        IN /\ \A i \in 1..(n - 1) : (FLe(depth[i], md) /\ FLt(md, depth[i + 1])) => ret.val = formation[i]
           /\ (n > 0 /\ FGe(md, depth[n])) => ret.val = formation[n]
           /\ (n = 0 \/ FLt(md, depth[1])) => ret.val = None
\* a query exactly on an inner boundary: it belongs to the deeper formation
C3_Witness ==
    /\ ret.op = "find_at_md" /\ Len(formation) = 3
    /\ FLt(depth[1], depth[2]) /\ ret.d = depth[2] /\ ret.val # formation[1] /\ ret.val # None

\* C4: construction with a duplicate name or a NaN, infinite or negative
\* depth fails with a ValueError and yields no instance; add fails the same
\* way when the name is present or the depth is NaN, infinite or negative,
\* and a failed add leaves formation, depth and facecolor as they were.
C4_RejectInvalid ==
    [][ /\ (ret'.op = "construct" /\ (HasDup(ret'.names) \/ \E i \in DOMAIN ret'.depths : BadDepth(ret'.depths[i])))
              => (ret'.err = "ValueError" /\ alive' = "failed")
        /\ (ret'.op = "add" /\ (ret'.a1 \in Range(formation) \/ BadDepth(ret'.d)))
              => (ret'.err = "ValueError" /\ UNCHANGED <<formation, depth, facecolor>>)
        /\ (ret'.op = "add" /\ ret'.err # "") => UNCHANGED <<formation, depth, facecolor>> ]_vars
\* an add of a new name refused for its depth alone
C4_Witness ==
    /\ ret.op = "add" /\ ret.err = "ValueError" /\ ret.a1 \notin Range(formation)
    /\ IsNaN(ret.d) /\ Len(formation) > 0

\* the error kind of a construction with malformed input (a repeated name)
MalformedConstructionError == Tops_post_init(<<"A", "A">>, <<Fl(0), Fl(1)>>, EmptyDict).err
NameQueries == {"index", "get_top", "get_limit"}

\* C20 as stated: index, get_top and get_limit with an absent name fail with
\* an error of another kind than the validation error of a malformed
\* construction.
C20_NotFoundDistinct ==
    (ret.op \in NameQueries /\ ret.a1 \notin Range(formation)) => (ret.err # "" /\ ret.err # MalformedConstructionError)

\* C20 as amended: index, get_top and get_limit with an absent name fail with
\* a ValueError saying the formation was not found, the same error kind as
\* the validation error of a malformed construction, and leave the formations,
\* depths and facecolors unchanged; with a present name they return.
C20_NotFoundError ==
    [][ret'.op \in NameQueries =>
          /\ ret'.a1 \notin Range(formation) =>
                /\ ret'.err = "ValueError" /\ ret'.err = MalformedConstructionError
                /\ ret'.msg = "not found" /\ ret'.val = None
                /\ UNCHANGED <<alive, formation, depth, facecolor>>
          /\ ret'.a1 \in Range(formation) => (ret'.err = "" /\ UNCHANGED <<alive, formation, depth, facecolor>>)]_vars
\* get_limit of an absent name on Tops that hold two formations
C20_Witness ==
    /\ ret.op = "get_limit" /\ ret.err = "ValueError" /\ ret.msg = "not found"
    /\ Len(formation) = 2 /\ ret.a1 \notin Range(formation)

\* the limits of the i-th formation: its top, and the top of the next one
\* in the order, absent for the last
LimitOf(i) == <<depth[i], IF i < Len(depth) THEN depth[i + 1] ELSE NoFloat>>

\* C21: get_limit(name) returns (top of name, top of the next-deeper
\* formation), the bottom absent for the deepest, and intervals() lists
\* (name, top, bottom) shallow to deep with the same (top, bottom) for every
\* present formation.
C21_LimitsAndIntervals ==
    /\ (ret.op = "get_limit" /\ ret.a1 \in Range(formation)) =>
          (ret.err = "" /\ ret.val = LimitOf(IndexOf(formation, ret.a1)))
    /\ ret.op = "intervals" =>
          /\ ret.err = "" /\ Len(ret.val) = Len(formation)
          /\ \A i \in DOMAIN formation : ret.val[i].name = formation[i] /\ <<ret.val[i].top, ret.val[i].bottom>> = LimitOf(i)
\* get_limit of the shallower of two formations at different depths
C21_Witness ==
    /\ ret.op = "get_limit" /\ ret.err = "" /\ Len(formation) = 2 /\ ret.a1 = formation[1]
    /\ FLt(depth[1], depth[2]) /\ ret.val = <<depth[1], depth[2]>>

\* the facecolor a formation reports in the current and in the next state
ColorOf(x)     == Tops_get_facecolor(Cur, x)
NextColorOf(x) == Tops_get_facecolor(TopsState(formation', depth', facecolor'), x)

\* C25: rename(old, new) with old present and new absent changes only the
\* name: the formation keeps its depth, its position and its facecolor and
\* every other formation is unchanged; with new present or old absent it
\* fails and changes nothing.
C25_RenameFrame ==
    [][ret'.op = "rename" =>
          /\ (ret'.a1 \in Range(formation) /\ ret'.a2 \notin Range(formation)) =>
                /\ ret'.err = ""
                /\ formation' = [formation EXCEPT ![IndexOf(formation, ret'.a1)] = ret'.a2]
                /\ depth' = depth
                /\ NextColorOf(ret'.a2) = ColorOf(ret'.a1)
                /\ \A x \in Range(formation) \ {ret'.a1} : NextColorOf(x) = ColorOf(x)
          /\ (ret'.a1 \notin Range(formation) \/ ret'.a2 \in Range(formation)) =>
                (ret'.err # "" /\ UNCHANGED <<formation, depth, facecolor>>)]_vars

\* C26: remove(name) of an absent name does nothing and does not fail; of a
\* present name it takes out that formation with its depth and its facecolor
\* and leaves every other formation, depth and facecolor, and their order,
\* as they were.
C26_RemoveFrame ==
    [][ret'.op = "remove" =>
          /\ ret'.err = ""
          /\ ret'.a1 \notin Range(formation) => UNCHANGED <<formation, depth, facecolor>>
          /\ ret'.a1 \in Range(formation) =>
                LET i == IndexOf(formation, ret'.a1) IN
                  /\ formation' = [k \in 1..(Len(formation) - 1) |-> formation[IF k < i THEN k ELSE k + 1]]
                  /\ depth' = [k \in 1..(Len(depth) - 1) |-> depth[IF k < i THEN k ELSE k + 1]]
                  /\ ret'.a1 \notin DOMAIN facecolor'
                  /\ \A x \in Names \ {ret'.a1} : x \in DOMAIN facecolor' <=> x \in DOMAIN facecolor
                  /\ \A x \in DOMAIN facecolor' : facecolor'[x] = facecolor[x]]_vars
\* after a remove one formation is left, with its facecolor, and the removed
\* name has none
C26_Witness ==
    /\ ret.op = "remove" /\ ret.err = "" /\ Len(formation) = 1 /\ ret.a1 \notin Range(formation)
    /\ ret.a1 \notin DOMAIN facecolor /\ formation[1] \in DOMAIN facecolor

\* C28 as stated: every present formation is found at its own top, also
\* when two formations have the same depth.
C28_FoundAtOwnTop ==
    ret.op = "find_at_md" => \A i \in DOMAIN formation : depth[i] = ret.d => ret.val = formation[i]

\* C28 as amended: a present formation is found at its own top when the next
\* formation in the order is strictly deeper or there is none; of formations
\* with the same depth only the last in the order is found there.
C28_FoundAtOwnTopIfThick ==
    ret.op = "find_at_md" =>
        \A i \in DOMAIN formation :
            (depth[i] = ret.d /\ (i = Len(depth) \/ FLt(depth[i], depth[i + 1]))) => ret.val = formation[i]
\* two formations at one depth, queried at that depth
C28_Witness ==
    /\ ret.op = "find_at_md" /\ Len(formation) = 2 /\ depth[1] = depth[2] /\ ret.d = depth[1]
    /\ ret.val = formation[2]

\* C29: every key of the stored facecolor mapping is the name of a present
\* formation, after construction with any facecolor mapping and any sequence
\* of add, remove, rename and merge_facecolors.
C29_FacecolorKeysPresent ==
    alive = "built" => DOMAIN facecolor \subseteq Range(formation)

\* C27: to_mapping(from_mapping(m)) holds exactly the name-depth pairs of m,
\* whatever the order m was given in, and lists them shallow-to-deep.
C27_MappingRoundTrip ==
    (ret.op = "to_mapping" /\ ret.a1 = "from_mapping") =>
        /\ Len(ret.val) = Len(ret.names)
        /\ Range(ret.val) = {<<ret.names[i], ret.depths[i]>> : i \in DOMAIN ret.names}
        /\ \A k \in 1..(Len(ret.val) - 1) : FLe(ret.val[k][2], ret.val[k + 1][2])
\* a mapping given deep-first comes back shallow-first
C27_Witness ==
    /\ ret.op = "to_mapping" /\ ret.a1 = "from_mapping" /\ Len(ret.names) = 2
    /\ FGt(ret.depths[1], ret.depths[2])
    /\ ret.val = <<<<ret.names[2], ret.depths[2]>>, <<ret.names[1], ret.depths[1]>>>>

---------------------------------------------------------------------------
(* Claims about Survey, checked under SpecSurvey                           *)

StrictlyIncreasing(a) == \A i \in 1..(Len(a) - 1) : FLt(a[i], a[i + 1])

\* C5: on each of the four construction paths an MD array of length >= 2
\* that is not strictly increasing (a plateau or a reversal anywhere) makes
\* the construction fail with a ValueError, and no Survey is produced.
C5_MonotonicMD ==
    (sret.op = "construct" /\ sret.args.MD.has /\ Len(sret.args.MD.a) >= 2 /\ ~StrictlyIncreasing(sret.args.MD.a))
        => (sret.err = "ValueError" /\ salive = "failed" /\ survey = NoSurvey)
\* a plateau at the last pair, through the minimum-curvature path
C5_Witness ==
    /\ sret.op = "construct" /\ sret.path = "from_md_inc_azi" /\ sret.err = "ValueError"
    /\ Len(sret.args.MD.a) = 3 /\ Len(sret.args.AZI.a) = 3
    /\ FLt(sret.args.MD.a[1], sret.args.MD.a[2]) /\ sret.args.MD.a[2] = sret.args.MD.a[3]

C7_Tvd2mdNeedsIncreasingTVD ==
    (sret.op = "tvd2md" /\ survey.MD.has /\ survey.TVD.has /\ ~StrictlyIncreasing(survey.TVD.a))
        => (sret.err = "ValueError" /\ sret.msg = "TVD must be strictly increasing")
\* built with a TVD plateau, queried inside the TVD range
C7_Witness ==
    /\ salive = "built" /\ sret.op = "tvd2md" /\ sret.err = "ValueError"
    /\ Len(survey.TVD.a) = 3 /\ survey.TVD.a[1] = survey.TVD.a[2]
    /\ \A i \in DOMAIN sret.q : FLe(survey.TVD.a[1], sret.q[i]) /\ FLe(sret.q[i], survey.TVD.a[3])

\* C8: with MD and TVD strictly increasing, tvd2md applied to the result of
\* md2tvd(md), md in [MD[0], MD[-1]], does not fail and returns md.
C8_RoundTrip ==
    (sret.op = "tvd2md" /\ sret.src # <<>> /\ StrictlyIncreasing(survey.TVD.a))
        => (sret.err = "" /\ sret.out = sret.src)
\* a query between two stations on a chord whose slope is not 1
C8_Witness ==
    /\ sret.op = "tvd2md" /\ sret.src # <<>> /\ sret.err = "" /\ StrictlyIncreasing(survey.TVD.a)
    /\ Len(sret.src) = 2 /\ sret.src[1].d = 2 /\ sret.q[1] # sret.src[1] /\ sret.q[1].d # 1

\* C13: for max_points >= 2 on a Survey that has MD, every array downsample
\* returns has length min(max_points, n) and keeps the first and the last
\* element of the original; with n <= max_points every array comes back with
\* all its n values.
C13_DownsampleEndpoints ==
    (sret.op = "downsample" /\ sret.q[1] >= 2 /\ survey.MD.has) =>
        /\ sret.err = ""
        /\ Len(sret.out) = Len(Provided(survey))
        /\ \A k \in DOMAIN sret.out :
             LET a == Provided(survey)[k].a
                 b == sret.out[k]
             IN /\ Len(b) = (IF sret.q[1] < Len(a) THEN sret.q[1] ELSE Len(a))
                /\ Len(a) >= 1 => (b[1] = a[1] /\ b[Len(b)] = a[Len(a)])
                /\ Len(a) <= sret.q[1] => b = a
\* five stations cut down to three, two arrays returned
C13_Witness ==
    /\ sret.op = "downsample" /\ sret.err = "" /\ sret.q[1] = 3 /\ Len(survey.MD.a) = 5
    /\ Len(sret.out) = 2 /\ Len(sret.out[2]) = 3 /\ sret.out[1][2] = survey.MD.a[3]

\* C14: downsample(max_points) with max_points < 2 fails with a ValueError
\* and returns nothing, whatever arrays the Survey holds.
C14_DownsampleTooFew ==
    (sret.op = "downsample" /\ sret.q[1] < 2) => (sret.err = "ValueError" /\ sret.msg = "max_points must be >= 2" /\ sret.out = <<>>)
\* max_points = 1 on a Survey that holds MD and TVD
C14_Witness ==
    /\ sret.op = "downsample" /\ sret.q[1] = 1 /\ sret.err = "ValueError"
    /\ survey.MD.has /\ Len(survey.MD.a) >= 2 /\ survey.TVD.has

GivenLengths(sv) == {Len(sv[f].a) : f \in {g \in {"MD", "TVD", "DX", "DY", "INC", "AZI"} : sv[g].has}}

\* C18: a construction in which two of the given arrays among MD, TVD, DX,
\* DY, INC, AZI differ in length fails with a ValueError on every path and
\* yields no Survey; arrays that are not given take no part: the generic
\* constructor accepts any subset of arrays of one length (MD, if given,
\* strictly increasing).
C18_LengthAgreement ==
    sret.op = "construct" =>
        /\ Cardinality(GivenLengths(sret.args)) > 1 => (sret.err = "ValueError" /\ salive = "failed" /\ survey = NoSurvey)
        /\ (/\ sret.path = "init" /\ Cardinality(GivenLengths(sret.args)) <= 1
            /\ sret.args.MD.has => StrictlyIncreasing(sret.args.MD.a))
               => (sret.err = "" /\ salive = "built" /\ survey = sret.args)
\* from_md_xyz with a good MD and a DY one station longer than the rest
C18_Witness ==
    /\ sret.op = "construct" /\ sret.path = "from_md_xyz" /\ sret.err = "ValueError" /\ sret.msg = "same length"
    /\ Len(sret.args.MD.a) = 2 /\ StrictlyIncreasing(sret.args.MD.a)
    /\ Len(sret.args.DX.a) = 2 /\ Len(sret.args.TVD.a) = 2 /\ Len(sret.args.DY.a) = 3

\* C23 as stated: a Survey operation returns its result or fails with a
\* validation or range error (ValueError); no other kind of failure escapes,
\* zero-length station arrays included.
C23_OnlyValidationErrors ==
    sret.err \in {"", "ValueError"}

\* C30: when n > max_points >= 2 the rounded positions downsample selects lie
\* in [0, n-1] and are strictly increasing already before de-duplication, so
\* max_points stations are returned, they are the stations at those indices,
\* and the downsampled MD is strictly increasing.
C30_DownsampleIndices ==
    (sret.op = "downsample" /\ sret.err = "" /\ Len(survey.MD.a) > sret.q[1]) =>
        LET n   == Len(survey.MD.a)
            raw == downsample_raw(n, sret.q[1])
            out == sret.out[1]
        IN /\ \A i \in DOMAIN raw : raw[i] \in 0..(n - 1)
           /\ \A i \in 1..(Len(raw) - 1) : raw[i] < raw[i + 1]
           /\ Len(out) = sret.q[1]
           /\ \A j \in DOMAIN out : out[j] = survey.MD.a[raw[j] + 1]
           /\ \A j \in 1..(Len(out) - 1) : FLt(out[j], out[j + 1])
\* MaxStations + 2 stations cut to MaxStations + 1: an inner station is skipped
C30_Witness ==
    /\ sret.op = "downsample" /\ sret.err = "" /\ Len(survey.MD.a) = MaxStations + 2 /\ sret.q[1] = MaxStations + 1
    /\ Len(sret.out[1]) = MaxStations + 1
    /\ \E j \in 1..MaxStations : FGt(FSub(sret.out[1][j + 1], sret.out[1][j]), Fl(1))

---------------------------------------------------------------------------
(* Claims about the static helpers, checked under SpecGeom                 *)

\* C9: for a strictly increasing MD of length >= 1 and any tie-in,
\* minimum_curvature with every INC = 0 returns DX = xhead and DY = yhead at
\* every station, TVD[0] = datum and TVD[i] - TVD[i-1] = MD[i] - MD[i-1].
C9_VerticalPath ==
    (/\ gret.op = "minimum_curvature" /\ Len(gret.MD) >= 1 /\ StrictlyIncreasing(gret.MD)
     /\ Len(gret.A1) = Len(gret.MD) /\ Len(gret.A2) = Len(gret.MD)
     /\ \A i \in DOMAIN gret.A1 : gret.A1[i] = Fl(0))
        => /\ gret.err = ""
           /\ Len(gret.out.DX) = Len(gret.MD) /\ Len(gret.out.DY) = Len(gret.MD) /\ Len(gret.out.TVD) = Len(gret.MD)
           /\ \A i \in DOMAIN gret.MD : gret.out.DX[i] = gret.tie[1] /\ gret.out.DY[i] = gret.tie[2]
           /\ gret.out.TVD[1] = gret.tie[3]
           /\ \A i \in 2..Len(gret.MD) : FSub(gret.out.TVD[i], gret.out.TVD[i - 1]) = FSub(gret.MD[i], gret.MD[i - 1])
\* three vertical stations with changing azimuth and a tie-in off the origin
C9_Witness ==
    /\ gret.op = "minimum_curvature" /\ gret.err = "" /\ Len(gret.MD) = 3
    /\ \A i \in DOMAIN gret.A1 : gret.A1[i] = Fl(0)
    /\ gret.A2[1] # gret.A2[2] /\ gret.tie[3] # Fl(0) /\ gret.out.TVD[3] = FAdd(gret.tie[3], FSub(gret.MD[3], gret.MD[1]))

\* C10: in off2tvd a segment with dDX^2 + dDY^2 > dMD^2 contributes exactly
\* zero vertical progress; the call does not fail and the cumulative TVD is
\* finite and non-decreasing at every station.
C10_ClampedSegment ==
    (/\ gret.op = "off2tvd" /\ StrictlyIncreasing(gret.MD)
     /\ \E i \in 2..Len(gret.MD) : FGt(FAdd(FMul(FSub(gret.A1[i], gret.A1[i - 1]), FSub(gret.A1[i], gret.A1[i - 1])), FMul(FSub(gret.A2[i], gret.A2[i - 1]), FSub(gret.A2[i], gret.A2[i - 1]))),
                                        FMul(FSub(gret.MD[i], gret.MD[i - 1]), FSub(gret.MD[i], gret.MD[i - 1])))) =>
        /\ gret.err = ""
        /\ \A i \in DOMAIN gret.out.TVD : isfinite(gret.out.TVD[i])
        /\ \A i \in 2..Len(gret.MD) :
             /\ FLe(gret.out.TVD[i - 1], gret.out.TVD[i])
             /\ LET dMD == FSub(gret.MD[i], gret.MD[i - 1])
                    dDX == FSub(gret.A1[i], gret.A1[i - 1])
                    dDY == FSub(gret.A2[i], gret.A2[i - 1])
                IN FGt(FAdd(FMul(dDX, dDX), FMul(dDY, dDY)), FMul(dMD, dMD)) => gret.out.TVD[i] = gret.out.TVD[i - 1]

\* C11: for every strictly increasing MD, also one that does not start at 0,
\* off2tvd returns TVD[0] = 0 and TVD[i] = TVD[i-1] + dTVD_i for i > 0, with
\* dTVD_i = sqrt(max(0, dMD^2 - dDX^2 - dDY^2)).
C11_OffsetStartsAtZero ==
    (gret.op = "off2tvd" /\ Len(gret.MD) >= 1 /\ StrictlyIncreasing(gret.MD)) =>
        /\ gret.err = ""
        /\ Len(gret.out.TVD) = Len(gret.MD)
        /\ gret.out.TVD[1] = Fl(0)
        /\ \A i \in 2..Len(gret.MD) :
             LET dMD == FSub(gret.MD[i], gret.MD[i - 1])
                 dDX == FSub(gret.A1[i], gret.A1[i - 1])
                 dDY == FSub(gret.A2[i], gret.A2[i - 1])
                 d2  == FSub(FSub(FMul(dMD, dMD), FMul(dDX, dDX)), FMul(dDY, dDY))
             IN gret.out.TVD[i] = FAdd(gret.out.TVD[i - 1], sqrt(IF FLt(d2, Fl(0)) THEN Fl(0) ELSE d2))

\* C12: for every strictly increasing MD (also MD[0] # 0) and every INC,
\* inc2tvd returns TVD[0] = MD[0] and TVD[i] = TVD[i-1] + (MD[i] - MD[i-1]) *
\* cos(INC[i]) for i > 0; with all INC = 0, TVD equals MD at every station.
C12_TangentialRecurrence ==
    (gret.op = "inc2tvd" /\ Len(gret.MD) >= 1 /\ StrictlyIncreasing(gret.MD)) =>
        /\ gret.err = ""
        /\ Len(gret.out.TVD) = Len(gret.MD)
        /\ gret.out.TVD[1] = gret.MD[1]
        /\ \A i \in 2..Len(gret.MD) :
             gret.out.TVD[i] = FAdd(gret.out.TVD[i - 1], FMul(FSub(gret.MD[i], gret.MD[i - 1]), cos(deg2rad(gret.A1[i]))))
        /\ (\A i \in DOMAIN gret.A1 : gret.A1[i] = Fl(0)) => gret.out.TVD = gret.MD

\* C15: solve_straight_to_target fails (ValueError) exactly when
\* md_end <= md_start, whatever the target and the origin; with
\* md_end > md_start it returns, also when md_end - md_start is not the
\* distance from the origin to the target.
C15_SolveFailsOnlyOnMd ==
    gret.op = "solve_straight_to_target" =>
        /\ gret.err \in {"", "ValueError"}
        /\ gret.err = "ValueError" <=> FLe(gret.MD[2], gret.MD[1])
\* two units of MD for a target one unit away
C15_Witness ==
    /\ gret.op = "solve_straight_to_target" /\ gret.err = ""
    /\ FSub(gret.MD[2], gret.MD[1]) = Fl(2)
    /\ gret.A1[1] = FAdd(gret.A2[1], Fl(1)) /\ gret.A1[2] = gret.A2[2] /\ gret.A1[3] = gret.A2[3]

\* C16: with md_end > md_start, a target on the origin gives (INC, AZI) =
\* (0, 0) and no failure, and so does a target straight below the origin.
C16_SolveDegenerate ==
    (/\ gret.op = "solve_straight_to_target" /\ FGt(gret.MD[2], gret.MD[1])
     /\ gret.A1[1] = gret.A2[1] /\ gret.A1[2] = gret.A2[2] /\ FGe(gret.A1[3], gret.A2[3]))
        => (gret.err = "" /\ gret.out = Angle2(Fl(0), Fl(0)))
\* target and origin the same point, away from (0, 0, 0)
C16_Witness ==
    /\ gret.op = "solve_straight_to_target" /\ gret.err = "" /\ gret.A1 = gret.A2 /\ gret.A1[1] # Fl(0)
    /\ gret.out = Angle2(Fl(0), Fl(0))

\* C17: in minimum_curvature every station pair advances the path by
\* 0.5 * dmd * rf * (direction sums) with rf = 1 when the dogleg dl is below
\* small_angle and rf = (2/dl) * tan(dl/2) otherwise; a pair with the same INC
\* and AZI (dl = 0) does not fail, gives finite values and advances the path
\* by dmd along the common direction.
C17_RatioFactor ==
    (/\ gret.op = "minimum_curvature" /\ Len(gret.MD) >= 1 /\ StrictlyIncreasing(gret.MD)
     /\ Len(gret.A1) = Len(gret.MD) /\ Len(gret.A2) = Len(gret.MD)) =>
        /\ gret.err = ""
        /\ \A i \in 2..Len(gret.MD) :
             LET dmd == FSub(gret.MD[i], gret.MD[i - 1])
                 i1 == deg2rad(gret.A1[i - 1])
                 i2 == deg2rad(gret.A1[i])
                 a1 == deg2rad(gret.A2[i - 1])
                 a2 == deg2rad(gret.A2[i])
                 dl == arccos(clip(FAdd(FMul(cos(i1), cos(i2)), FMul(FMul(sin(i1), sin(i2)), cos(FSub(a2, a1)))), Fl(-1), Fl(1)))
                 rf == IF FLt(dl, small_angle) THEN Fl(1) ELSE FMul(FDiv(Fl(2), dl), tan(FDiv(dl, Fl(2))))
                 k  == FMul(FMul(Rat(1, 2), dmd), rf)
                 dE == FSub(gret.out.DX[i], gret.out.DX[i - 1])
                 dN == FSub(gret.out.DY[i], gret.out.DY[i - 1])
                 dV == FSub(gret.out.TVD[i], gret.out.TVD[i - 1])
             IN /\ isfinite(dE) /\ isfinite(dN) /\ isfinite(dV)
                /\ dE = FMul(k, FAdd(FMul(sin(i1), sin(a1)), FMul(sin(i2), sin(a2))))
                /\ dN = FMul(k, FAdd(FMul(sin(i1), cos(a1)), FMul(sin(i2), cos(a2))))
                /\ dV = FMul(k, FAdd(cos(i1), cos(i2)))
                /\ (i1 = i2 /\ a1 = a2) =>
                      /\ dE = FMul(dmd, FMul(sin(i1), sin(a1)))
                      /\ dN = FMul(dmd, FMul(sin(i1), cos(a1)))
                      /\ dV = FMul(dmd, cos(i1))
\* a straight horizontal pair heading east, then a pair that turns to vertical
C17_Witness ==
    /\ gret.op = "minimum_curvature" /\ gret.err = "" /\ Len(gret.MD) = 3
    /\ gret.A1[1] = Fl(90) /\ gret.A1[2] = Fl(90) /\ gret.A1[3] = Fl(0)
    /\ gret.A2[1] = Fl(90) /\ gret.A2[2] = Fl(90)
    /\ FSub(gret.out.DX[2], gret.out.DX[1]) = FSub(gret.MD[2], gret.MD[1])
    /\ FSub(gret.out.TVD[3], gret.out.TVD[2]) = FMul(FSub(gret.MD[3], gret.MD[2]), Rat(226, 355))

---------------------------------------------------------------------------
(* Claims about object identity, checked under SpecShare                   *)

\* C22 as stated: a Survey shares no array storage with its caller. The
\* arrays a built handle is bound to still hold what they held at
\* construction, whatever the caller has assigned to since, and every array
\* returned by md2tvd, tvd2md and downsample is an object no handle is bound to.
C22_NoSharedStorage ==
    /\ \A i \in Ids : sinst[i].state = "built" =>
           (heap[sinst[i].MD].v = sinst[i].MD0 /\ heap[sinst[i].TVD].v = sinst[i].TVD0)
    /\ call.op \in {"md2tvd", "tvd2md", "downsample"} => call.out \cap InstanceRefs = {}

TopsMutators == {"add", "remove", "rename", "merge_facecolors"}
ReadOnly     == TopsReadOnly \cup {"md2tvd", "tvd2md", "downsample"}
\* handle j is bound to the same objects, and its methods read the same values
Untouched(j) ==
    /\ tinst[j].state = "built" => (tinst'[j] = tinst[j] /\ TopsView(j)' = TopsView(j))
    /\ sinst[j].state = "built" => (sinst'[j] = sinst[j] /\ SurveyView(j)' = SurveyView(j))
=============================================================================
